---------------------------- MODULE Spec2Model ----------------------------
(***************************************************************************)
(* Model of the survey submission queue of the experience-sampling         *)
(* extension (SurveySubmission namespace) and of the event page that feeds *)
(* it (handleCompletedSurvey, the alarm channel).                          *)
(*                                                                         *)
(* The entry points are the functions that callers outside the namespace   *)
(* use: handleCompletedSurvey (runtime message), processQueueAlarm (alarm  *)
(* channel), and the two the integration tests call directly,              *)
(* saveSurveyRecord(record, tries) and processQueue().  The two store      *)
(* functions deleteSurveyRecord(id) and updateTimeToSend(id) are also      *)
(* called on their own, and calculateSendingDelay as its unit tests do.    *)
(*                                                                         *)
(* JavaScript semantics that the model keeps:                              *)
(*  - a free identifier that no enclosing scope binds raises a             *)
(*    ReferenceError when it is evaluated;                                 *)
(*  - an exception thrown inside a Promise executor rejects the promise,   *)
(*    one thrown inside a then-callback rejects the derived promise, and   *)
(*    one thrown inside an event handler is reported and otherwise lost;   *)
(*  - then-callbacks of an already settled promise run as microtasks,      *)
(*    before any other event is dispatched;                                *)
(*  - an IndexedDB transaction sees the store in isolation and commits     *)
(*    when its last request has been served; transactions on the same      *)
(*    store run in the order of their creation, except that readonly ones  *)
(*    do not wait for each other.                                          *)
(* The body of processQueue is read as the expression it evidently is      *)
(* (the stray ';' inside the Promise.all call is ignored).                 *)
(***************************************************************************)
EXTENDS Integers, Sequences, FiniteSets, TLC

VARIABLES
  now,        \* Date.now(), in ms
  store,      \* object store PendingSurveyRecords: set of entries
  keyGen,     \* key generator of the autoIncrement object store
  storedPid,  \* chrome.storage.local[cesp.PARTICIPANT_ID_LOOKUP]
  saveOps,    \* calls of saveSurveyRecord, by slot
  pq,         \* calls of processQueue, by slot
  txq,        \* transactions on the object store, in the order of creation
  delivered,  \* ids of the entries one of whose sends was fulfilled
  lastFail,   \* id -> time the last failed send of the entry was reconciled
  uncaught,   \* exceptions thrown out of event handlers and callbacks
  delayTest,  \* the calls of calculateSendingDelay of the unit tests
  storeOps,   \* calls of deleteSurveyRecord and updateTimeToSend, by slot
  storeFault, \* ids whose delete or reschedule the store would fail
  local,      \* chrome.storage.local, the keys of the event page
  page,       \* the event page: its startup lookups, its onChanged listener
  decisions,  \* onDecision events being handled, by slot
  shown       \* survey notifications shown since the last resets

vars == <<now, store, keyGen, storedPid, saveOps, pq, txq, delivered, lastFail, uncaught, delayTest, storeOps, storeFault, local, page, decisions, shown>>

-----------------------------------------------------------------------------
(* Bounds of the model. *)

MaxTicks == 2
MaxRecords == 2
MaxTries == 2
MaxSaveSlots == 1
MaxQueueSlots == 1
MaxDelayTries == 8
MaxOpSlots == 2
MaxStoredTries == 3
MaxLifecycleOps == 1
MaxLifecycleTicks == 1
MaxDecisionSlots == 2
MaxLongTicks == 2
MaxShown == 5

(* Program constants. *)

MinuteMs == 60000
XHR_TIMEOUT == 4000
HTTP_NO_CONTENT == 204

QUEUE_ALARM_NAME == "surveySubmissionAlarm"
SURVEY_THROTTLE_DAILY_RESET_ALARM == "dailySurveyCountReset"
SURVEY_THROTTLE_WEEKLY_RESET_ALARM == "weeklySurveyCountReset"
NOTIFICATION_ALARM_NAME == "notificationTimeout"
UNINSTALL_ALARM_NAME == "uninstallAlarm"

MAX_SURVEYS_PER_DAY == 2
MAX_SURVEYS_PER_WEEK == 4
MINIMUM_SURVEY_DELAY == 300000

\* Keys of chrome.storage.local.  cesp.SURVEYS_SHOWN_TODAY and
\* cesp.SURVEYS_SHOWN_THIS_WEEK are assigned nowhere, so both evaluate to
\* undefined and, as property names, to the one key "undefined".
READY_FOR_SURVEYS == "readyForSurveys"
LAST_NOTIFICATION_TIME == "lastNotificationTime"
SURVEYS_SHOWN_TODAY == "undefined"
SURVEYS_SHOWN_THIS_WEEK == "undefined"

\* Keys and values of constants.js, by name.
CONSENT_KEY == "CONSENT_KEY"
SETUP_KEY == "SETUP_KEY"
CONSENT_PENDING == "CONSENT_PENDING"
CONSENT_GRANTED == "CONSENT_GRANTED"
CONSENT_REJECTED == "CONSENT_REJECTED"
SETUP_PENDING == "SETUP_PENDING"
SETUP_COMPLETED == "SETUP_COMPLETED"

AlarmNames == {QUEUE_ALARM_NAME, SURVEY_THROTTLE_DAILY_RESET_ALARM, SURVEY_THROTTLE_WEEKLY_RESET_ALARM, NOTIFICATION_ALARM_NAME, UNINSTALL_ALARM_NAME}

-----------------------------------------------------------------------------
(* Values. *)

\* An omitted numeric argument (JavaScript's undefined) and an absent time.
UndefinedArg == -1
NoTime == 0 - 1

SaveSlots == 1..MaxSaveSlots
QueueSlots == 1..MaxQueueSlots
Ids == 1..MaxRecords
OpSlots == 1..MaxOpSlots
LifecycleOpSlots == 1..MaxLifecycleOps

ParticipantIds == {"pA", "pB"}

Response(question, answer) == [question |-> question, answer |-> answer]

SurveyRecord(type, participantId, dateTaken, responses) == [type |-> type, participantId |-> participantId, dateTaken |-> dateTaken, responses |-> responses]

PendingSurveyRecord(surveyRecord, timeToSend, tries) == [surveyRecord |-> surveyRecord, timeToSend |-> timeToSend, tries |-> tries]

\* The runtime messages a completed survey page sends.
Messages == { [survey_type |-> "ssl", responses |-> <<Response("q1", "a1"), Response("q2", "a2")>>], [survey_type |-> "malware", responses |-> <<>>] }

\* The record the integration tests save.
TestRecord(t) == SurveyRecord("testType", "0", t, <<Response("q1", "a1")>>)

\* The optional second argument of saveSurveyRecord.
TriesArgs == {UndefinedArg} \cup (0..MaxTries)

\* The two calls of the integration tests: saveSurveyRecord(record) and
\* saveSurveyRecord(record, 2).
TestTriesArgs == {UndefinedArg, MaxTries}

NoContent == [event |-> "load", status |-> 204]

\* What the endpoint does with a request: the event the XHR gets and xhr.status.
NetOutcomes == { NoContent, [event |-> "load", status |-> 200], [event |-> "load", status |-> 500], [event |-> "error", status |-> 0], [event |-> "timeout", status |-> 0] }

\* An endpoint that accepts a request or refuses it with a server error.
ServerOutcomes == { NoContent, [event |-> "load", status |-> 500] }

-----------------------------------------------------------------------------
(* Pure functions of the namespace. *)

\* Mutant: 2 * tries in place of Math.pow(2, tries).
calculateSendingDelay_Times(tries) == (2 * tries - 1) * MinuteMs

\* Mutant: the backoff stops growing after four tries.
calculateSendingDelay_Capped(tries) == (2^(IF tries > 4 THEN 4 ELSE tries) - 1) * MinuteMs

\* Mutant: the "- 1" forgotten, so that zero tries already wait a minute.
calculateSendingDelay_NoMinusOne(tries) == (2^tries) * MinuteMs

calculateSendingDelay(tries) == (2^tries - 1) * MinuteMs

\* Mutant: the tries argument is dropped.
TriesOrZero_AlwaysZero(tries) == 0

\* tries = tries || 0
TriesOrZero(tries) == IF tries = UndefinedArg \/ tries = 0 THEN 0 ELSE tries

\* store.add(value) on a keyPath/autoIncrement store: the generated key is
\* written into the value at the key path 'id'.
StoreAdd(st, kg, value) == st \cup { [id |-> kg + 1, surveyRecord |-> value.surveyRecord, timeToSend |-> value.timeToSend, tries |-> value.tries] }

StoreIds(st) == { e.id : e \in st }

\* store.get(id) for a key that is present.
StoreGet(st, id) == CHOOSE e \in st : e.id = id

\* Mutant: a delete that finds nothing under id empties the store.
deleteSurveyRecord_ClearsWhenAbsent(st, id) == IF id \in StoreIds(st) THEN { e \in st : e.id # id } ELSE {}

\* store.delete(id): succeeds whether or not the key is present.
deleteSurveyRecord(st, id) == { e \in st : e.id # id }

\* store.put(record) on a keyPath store: the entry under record.id is
\* replaced, or the record is inserted when there is none.
StorePut(st, record) == { e \in st : e.id # record.id } \cup {record}

\* Mutant: the count of tries is advanced twice.
UpdatedRecord_PlusTwo(record, t) == [record EXCEPT !.tries = record.tries + 2, !.timeToSend = t + calculateSendingDelay(record.tries + 2)]

\* Mutant: the delay alone is stored, not the time it ends.
UpdatedRecord_DelayOnly(record, t) == [record EXCEPT !.tries = record.tries + 1, !.timeToSend = calculateSendingDelay(record.tries + 1)]

\* record.tries = record.tries + 1;
\* record.timeToSend = Date.now() + calculateSendingDelay(record.tries)
UpdatedRecord(record, t) == [record EXCEPT !.tries = record.tries + 1, !.timeToSend = t + calculateSendingDelay(record.tries + 1)]

\* store.get(id), then tries + 1, a new timeToSend and store.put, in one
\* transaction.  With no entry under id the onsuccess handler dereferences
\* undefined and throws: nothing is written.
updateTimeToSend(st, id, t) == IF id \in StoreIds(st) THEN StorePut(st, UpdatedRecord(StoreGet(st, id), t)) ELSE st

-----------------------------------------------------------------------------
(* sendSurveyRecord and the reconciliation callbacks of processQueue. *)

\* new Promise(executor): surveyRecord.dateTaken.toISOString() throws when the
\* argument has no dateTaken, which rejects the promise before any request is
\* made.  Otherwise one request is sent and the promise follows its events:
\* load with status 204 resolves; load with another status, error and timeout
\* (after XHR_TIMEOUT) reject.
sendSurveyRecord(surveyRecord, net) == IF "dateTaken" \notin DOMAIN surveyRecord THEN [state |-> "rejected", sent |-> FALSE, status |-> 0] ELSE IF net.event = "load" /\ net.status = HTTP_NO_CONTENT THEN [state |-> "fulfilled", sent |-> TRUE, status |-> net.status] ELSE [state |-> "rejected", sent |-> TRUE, status |-> net.status]

\* The value of the free identifier `id` inside the two then-callbacks: no
\* enclosing scope declares it (the element's id is surveysToSubmit[i].id),
\* so evaluating it raises a ReferenceError.
Unbound == 0
CallbackId(elem) == Unbound

\* function(response) { return SurveySubmission.deleteSurveyRecord(id); }
\* A delete the store fails (the database does not open, or the request
\* errors) writes nothing.
OnFulfilled(st, elem, t) == IF CallbackId(elem) = Unbound THEN st ELSE IF CallbackId(elem) \in storeFault THEN st ELSE deleteSurveyRecord(st, CallbackId(elem))

\* Mutant: the failure callback gives the entry up and deletes it.
OnRejected_Deletes(st, elem, t) == deleteSurveyRecord(st, elem.id)

\* function(error) { return SurveySubmission.updateTimeToSend(id); }
OnRejected(st, elem, t) == IF CallbackId(elem) = Unbound THEN st ELSE IF CallbackId(elem) \in storeFault THEN st ELSE updateTimeToSend(st, CallbackId(elem), t)

\* What a callback did, for the record of the attempt.
CallbackOutcome(elem, state) == IF CallbackId(elem) = Unbound THEN "threw" ELSE IF state = "fulfilled" THEN "deleted" ELSE "updated"

\* Mutant: an open key range, IDBKeyRange.upperBound(bound, true).
DueEntries_Open(st, bound) == { e \in st : e.timeToSend < bound }

\* index.openCursor(IDBKeyRange.upperBound(bound)): the entries whose
\* timeToSend is at most bound.
DueEntries(st, bound) == { e \in st : e.timeToSend <= bound }

\* The cursor walks the index in ascending timeToSend, then ascending key.
Before(a, b) == a.timeToSend < b.timeToSend \/ (a.timeToSend = b.timeToSend /\ a.id < b.id)

RECURSIVE CursorOrder(_)
CursorOrder(S) == IF S = {} THEN <<>> ELSE LET first == CHOOSE a \in S : \A b \in S \ {a} : Before(a, b) IN <<first>> \o CursorOrder(S \ {first})

\* surveysToSubmit.push({id: cursor.value.id, surveyRecord: cursor.value.surveyRecord})
SurveysToSubmit(st, bound) == LET due == CursorOrder(DueEntries(st, bound)) IN [k \in 1..Len(due) |-> [id |-> due[k].id, surveyRecord |-> due[k].surveyRecord]]

\* surveysToSubmit.map(SurveySubmission.sendSurveyRecord): the element itself
\* is the argument of sendSurveyRecord.
SendArgument(elem) == elem

\* The attempts of one invocation: each element, how the endpoint treats a
\* request for it, and what became of the promise.
Attempts(st, elems, nets, fails) == [k \in 1..Len(elems) |-> LET r == sendSurveyRecord(SendArgument(elems[k]), nets[k]) IN [id |-> elems[k].id, tries |-> StoreGet(st, elems[k].id).tries, timeToSend |-> StoreGet(st, elems[k].id).timeToSend, net |-> nets[k], state |-> r.state, sent |-> r.sent, callback |-> CallbackOutcome(elems[k], r.state), prevFail |-> fails[elems[k].id], fault |-> (elems[k].id \in storeFault)]]

\* The then-callbacks run in the order of the array.
RECURSIVE Reconcile(_, _, _, _, _)
Reconcile(st, elems, atts, k, t) == IF k > Len(elems) THEN st ELSE Reconcile(IF atts[k].state = "fulfilled" THEN OnFulfilled(st, elems[k], t) ELSE OnRejected(st, elems[k], t), elems, atts, k + 1, t)

\* withObjectStore: action(objectStore).then(...).  An action that returns a
\* promise settles the outer promise as that promise settles; an action that
\* returns undefined makes .then throw inside the open request's onsuccess
\* handler, and the outer promise stays pending.
withObjectStore(actionReturn) == IF actionReturn = "undefined" THEN "pending" ELSE actionReturn

\* The action of processQueue installs the cursor handler and returns nothing.
ProcessQueueActionReturn == "undefined"

-----------------------------------------------------------------------------
(* State. *)

NoMessage == [survey_type |-> "", responses |-> <<>>]
NoRecord == SurveyRecord("", "", NoTime, <<>>)

\* A slot no call of saveSurveyRecord occupies.
IdleSave == [pc |-> "idle", via |-> "none", msg |-> NoMessage, surveyRecord |-> NoRecord, triesArg |-> UndefinedArg, tries |-> 0, savedAt |-> NoTime, timeToSend |-> NoTime, key |-> 0, promise |-> "none"]

\* A slot no call of deleteSurveyRecord or updateTimeToSend occupies.
NoEntry == [id |-> 0, surveyRecord |-> NoRecord, timeToSend |-> NoTime, tries |-> 0]
IdleOp == [pc |-> "idle", op |-> "none", id |-> 0, base |-> 0, found |-> FALSE, at |-> NoTime, record |-> NoEntry, promise |-> "none"]

\* A slot no call of processQueue occupies.
IdleQueue == [pc |-> "idle", bound |-> NoTime, attempts |-> <<>>, endedAt |-> NoTime, promise |-> "none"]

SaveActive(s) == saveOps[s].pc \in {"getPid", "opening", "adding"}
SavesInProgress == Cardinality({ s \in SaveSlots : SaveActive(s) })
QueueActive(i) == pq[i].pc \in {"opening", "cursor"}
OpActive(o) == storeOps[o].pc \in {"opening", "deleting", "getting", "putting"}

\* db.transaction([storeName], mode): the transaction joins the queue.
Transaction(mode, slot) == [mode |-> mode, slot |-> slot]

\* Mutant: transactions do not wait for each other.
CanRun_NoIsolation(tx) == \E k \in 1..Len(txq) : txq[k] = tx

\* Mutant: the transaction created last runs first.
CanRun_NewestFirst(tx) == Len(txq) > 0 /\ txq[Len(txq)] = tx

\* A readwrite transaction runs when every transaction created before it has
\* finished; a readonly one when no readwrite transaction is ahead of it.
CanRun(tx) == \E k \in 1..Len(txq) : txq[k] = tx /\ \A j \in 1..(k - 1) : tx.mode = "readonly" /\ txq[j].mode = "readonly"

\* The queue once the transaction has committed or aborted.
Finished(tx) == SelectSeq(txq, LAMBDA x : x # tx)

\* A key that was never set.
Unset == "unset"

StorageKeys == {READY_FOR_SURVEYS, LAST_NOTIFICATION_TIME, SURVEYS_SHOWN_TODAY, SURVEYS_SHOWN_THIS_WEEK, CONSENT_KEY, SETUP_KEY}

\* chrome.storage.local after setupState ran on install: the ready flag is
\* false and the counts are 0.
InstalledStorage == [k \in StorageKeys |-> IF k = READY_FOR_SURVEYS THEN FALSE ELSE IF k = LAST_NOTIFICATION_TIME THEN NoTime ELSE IF k \in {SURVEYS_SHOWN_TODAY, SURVEYS_SHOWN_THIS_WEEK} THEN 0 ELSE Unset]

\* The event page after onInstalled: maybeShowConsentOrSetupSurvey has asked
\* storage for the consent key; storageUpdated is not registered.
InstalledPage == [pc |-> "consentLookup", listening |-> FALSE]

DecisionSlots == 1..MaxDecisionSlots

\* Elements of onDecision events, by the event type FindEventType gives.
EventTypes == {"SSL_OVERRIDABLE", "DOWNLOAD_DANGEROUS"}
SupportedEventTypes == {"SSL_OVERRIDABLE", "SSL_NONOVERRIDABLE", "MALWARE", "PHISHING", "EXTENSION_INSTALL", "EXTENSION_INLINE_INSTALL", "EXTENSION_BUNDLE"}

IdleDecision == [pc |-> "idle", ready |-> FALSE, last |-> NoTime, today |-> 0, week |-> 0]
DecisionActive(d) == decisions[d].pc \in {"get1", "cb1", "get2", "cb2"}
DecisionsInProgress == Cardinality({ d \in DecisionSlots : DecisionActive(d) })

\* Notifications created since the last daily and the last weekly reset, and
\* the times of the last two.
NoneShown == [sinceDaily |-> 0, sinceWeekly |-> 0, lastAt |-> NoTime, prevAt |-> NoTime]

\* The unit tests of calculateSendingDelay: the arguments of two calls and
\* the delays they returned.
DelayTries == 0..MaxDelayTries
NoDelayTest == [tries1 |-> UndefinedArg, tries2 |-> UndefinedArg, delay1 |-> NoTime, delay2 |-> NoTime]

Init ==
  /\ now = 0
  /\ store = {}
  /\ keyGen = 0
  /\ storedPid = ""
  /\ saveOps = [s \in SaveSlots |-> IdleSave]
  /\ pq = [i \in QueueSlots |-> IdleQueue]
  /\ txq = <<>>
  /\ delivered = {}
  /\ lastFail = [id \in Ids |-> NoTime]
  /\ uncaught = {}
  /\ delayTest = NoDelayTest
  /\ storeOps = [o \in OpSlots |-> IdleOp]
  /\ storeFault = {}
  /\ local = InstalledStorage
  /\ page = InstalledPage
  /\ decisions = [d \in DecisionSlots |-> IdleDecision]
  /\ shown = NoneShown

\* A unit test of calculateSendingDelay is about to make its two calls.
InitDelay ==
  /\ now = 0
  /\ store = {}
  /\ keyGen = 0
  /\ storedPid = ""
  /\ saveOps = [s \in SaveSlots |-> IdleSave]
  /\ pq = [i \in QueueSlots |-> IdleQueue]
  /\ txq = <<>>
  /\ delivered = {}
  /\ lastFail = [id \in Ids |-> NoTime]
  /\ uncaught = {}
  /\ \E a \in DelayTries, b \in DelayTries : delayTest = [NoDelayTest EXCEPT !.tries1 = a, !.tries2 = b]
  /\ storeOps = [o \in OpSlots |-> IdleOp]
  /\ storeFault = {}
  /\ local = InstalledStorage
  /\ page = InstalledPage
  /\ decisions = [d \in DecisionSlots |-> IdleDecision]
  /\ shown = NoneShown

-----------------------------------------------------------------------------
(* Time. *)

Tick ==
  /\ now < MaxTicks * MinuteMs
  /\ now' = now + MinuteMs
  /\ UNCHANGED <<store, keyGen, storedPid, saveOps, pq, txq, delivered, lastFail, uncaught, delayTest, storeOps, storeFault, local, page, decisions, shown>>

-----------------------------------------------------------------------------
(* Saving a completed survey. *)

\* chrome.runtime.onMessage -> handleCompletedSurvey(message): getParticipantId()
\* starts a read of chrome.storage.local.
handleCompletedSurvey(s, message) ==
  /\ ~SaveActive(s)
  /\ keyGen + SavesInProgress < MaxRecords
  /\ saveOps' = [saveOps EXCEPT ![s] = [IdleSave EXCEPT !.pc = "getPid", !.via = "message", !.msg = message]]
  /\ UNCHANGED <<now, store, keyGen, storedPid, pq, txq, delivered, lastFail, uncaught, delayTest, storeOps, storeFault, local, page, decisions, shown>>

\* The participant ID the promise of getParticipantId resolves with: the first
\* resolve() wins, so the stored ID when there is one, else the new one.
ResolvedParticipantId(stored, fresh) == IF stored # "" THEN stored ELSE fresh

\* What getParticipantId leaves in storage: there is no return after the first
\* resolve(), so a new ID is generated and stored in every call.
StoredParticipantId(stored, fresh) == fresh

\* The storage callback of getParticipantId, then the callback of
\* handleCompletedSurvey: the record is built and saveSurveyRecord(record) is
\* called with tries omitted, which opens the database.
GetParticipantIdCallback(s) ==
  /\ saveOps[s].pc = "getPid"
  /\ \E fresh \in ParticipantIds :
       /\ storedPid' = StoredParticipantId(storedPid, fresh)
       /\ saveOps' = [saveOps EXCEPT ![s].pc = "opening", ![s].surveyRecord = SurveyRecord(saveOps[s].msg.survey_type, ResolvedParticipantId(storedPid, fresh), now, saveOps[s].msg.responses), ![s].triesArg = UndefinedArg, ![s].tries = TriesOrZero(UndefinedArg), ![s].promise = "pending"]
  /\ UNCHANGED <<now, store, keyGen, pq, txq, delivered, lastFail, uncaught, delayTest, storeOps, storeFault, local, page, decisions, shown>>

\* SurveySubmission.saveSurveyRecord(record, tries) called directly, as the
\* integration tests do.
saveSurveyRecord(s, tries) ==
  /\ ~SaveActive(s)
  /\ keyGen + SavesInProgress < MaxRecords
  /\ saveOps' = [saveOps EXCEPT ![s] = [IdleSave EXCEPT !.pc = "opening", !.via = "direct", !.surveyRecord = TestRecord(now), !.triesArg = tries, !.tries = TriesOrZero(tries), !.promise = "pending"]]
  /\ UNCHANGED <<now, store, keyGen, storedPid, pq, txq, delivered, lastFail, uncaught, delayTest, storeOps, storeFault, local, page, decisions, shown>>

\* indexedDB.open succeeded: the action runs in a readwrite transaction,
\* computes timeToSend from Date.now() and requests store.add.
SaveOpenSuccess(s) ==
  /\ saveOps[s].pc = "opening"
  /\ saveOps' = [saveOps EXCEPT ![s].pc = "adding", ![s].savedAt = now, ![s].timeToSend = now + calculateSendingDelay(saveOps[s].tries)]
  /\ txq' = Append(txq, Transaction("readwrite", s))
  /\ UNCHANGED <<now, store, keyGen, storedPid, pq, delivered, lastFail, uncaught, delayTest, storeOps, storeFault, local, page, decisions, shown>>

\* indexedDB.open failed: the handler logs, returns Promise.reject() to nobody
\* and never reaches reject(event); the promise of the call stays pending.
SaveOpenError(s) ==
  /\ saveOps[s].pc = "opening"
  /\ saveOps' = [saveOps EXCEPT ![s].pc = "openFailed"]
  /\ UNCHANGED <<now, store, keyGen, storedPid, pq, txq, delivered, lastFail, uncaught, delayTest, storeOps, storeFault, local, page, decisions, shown>>

\* store.add succeeded: the entry is in the store under a fresh key.
SaveAddSuccess(s) ==
  /\ saveOps[s].pc = "adding"
  /\ CanRun(Transaction("readwrite", s))
  /\ txq' = Finished(Transaction("readwrite", s))
  /\ store' = StoreAdd(store, keyGen, PendingSurveyRecord(saveOps[s].surveyRecord, saveOps[s].timeToSend, saveOps[s].tries))
  /\ keyGen' = keyGen + 1
  /\ saveOps' = [saveOps EXCEPT ![s].pc = "saved", ![s].key = keyGen + 1, ![s].promise = withObjectStore("fulfilled")]
  /\ UNCHANGED <<now, storedPid, pq, delivered, lastFail, uncaught, delayTest, storeOps, storeFault, local, page, decisions, shown>>

\* store.add failed (for instance the quota is exhausted): nothing is written
\* and the promise rejects with Error("Failed to save record").
SaveAddError(s) ==
  /\ saveOps[s].pc = "adding"
  /\ CanRun(Transaction("readwrite", s))
  /\ txq' = Finished(Transaction("readwrite", s))
  /\ saveOps' = [saveOps EXCEPT ![s].pc = "addFailed", ![s].promise = withObjectStore("rejected")]
  /\ UNCHANGED <<now, store, keyGen, storedPid, pq, delivered, lastFail, uncaught, delayTest, storeOps, storeFault, local, page, decisions, shown>>

-----------------------------------------------------------------------------
(* Processing the queue. *)

\* What processQueueAlarm does after the name check: it calls the bare name
\* processQueue, which is bound nowhere (the function is
\* SurveySubmission.processQueue), so the call raises a ReferenceError and no
\* invocation of processQueue starts.
AlarmStartsQueue(name) == FALSE

\* chrome.alarms.onAlarm -> processQueueAlarm(alarm).
processQueueAlarm(name) ==
  /\ uncaught' = IF name # QUEUE_ALARM_NAME THEN uncaught ELSE uncaught \cup {"ReferenceError: processQueue is not defined"}
  /\ pq' = IF name = QUEUE_ALARM_NAME /\ AlarmStartsQueue(name) /\ \E i \in QueueSlots : ~QueueActive(i) THEN LET i == CHOOSE j \in QueueSlots : ~QueueActive(j) IN [pq EXCEPT ![i] = [IdleQueue EXCEPT !.pc = "opening", !.promise = "pending"]] ELSE pq
  /\ UNCHANGED <<now, store, keyGen, storedPid, saveOps, txq, delivered, lastFail, delayTest, storeOps, storeFault, local, page, decisions, shown>>

\* SurveySubmission.processQueue() called directly, as the integration tests
\* do: withObjectStore opens the database.
processQueue(i) ==
  /\ ~QueueActive(i)
  /\ pq' = [pq EXCEPT ![i] = [IdleQueue EXCEPT !.pc = "opening", !.promise = "pending"]]
  /\ UNCHANGED <<now, store, keyGen, storedPid, saveOps, txq, delivered, lastFail, uncaught, delayTest, storeOps, storeFault, local, page, decisions, shown>>

\* indexedDB.open succeeded: the action runs in a readonly transaction, fixes
\* the key range at Date.now() and opens the cursor.  The action returns
\* undefined, so withObjectStore throws on .then and the promise of the call
\* is never settled.
QueueOpenSuccess(i) ==
  /\ pq[i].pc = "opening"
  /\ pq' = [pq EXCEPT ![i].pc = "cursor", ![i].bound = now, ![i].promise = withObjectStore(ProcessQueueActionReturn)]
  /\ uncaught' = IF ProcessQueueActionReturn = "undefined" THEN uncaught \cup {"TypeError: cannot read property then of undefined"} ELSE uncaught
  /\ txq' = Append(txq, Transaction("readonly", i))
  /\ UNCHANGED <<now, store, keyGen, storedPid, saveOps, delivered, lastFail, delayTest, storeOps, storeFault, local, page, decisions, shown>>

\* The cursor has walked the due entries; its last onsuccess maps
\* sendSurveyRecord over surveysToSubmit and attaches the callbacks.  Every
\* promise is already rejected when the callbacks are attached (no request
\* was made), so the callbacks run as microtasks of this very event.
QueueCursorEnd(i, outcomes) ==
  /\ pq[i].pc = "cursor"
  /\ CanRun(Transaction("readonly", i))
  /\ txq' = Finished(Transaction("readonly", i))
  /\ LET elems == SurveysToSubmit(store, pq[i].bound) IN
     \E nets \in [1..Len(elems) -> outcomes] :
       LET atts == Attempts(store, elems, nets, lastFail) IN
         /\ store' = Reconcile(store, elems, atts, 1, now)
         /\ pq' = [pq EXCEPT ![i].pc = "done", ![i].attempts = atts, ![i].endedAt = now]
         /\ delivered' = delivered \cup { atts[k].id : k \in { j \in 1..Len(atts) : atts[j].state = "fulfilled" } }
         /\ lastFail' = [id \in Ids |-> IF \E k \in 1..Len(atts) : atts[k].id = id /\ atts[k].state = "rejected" THEN now ELSE lastFail[id]]
         /\ uncaught' = IF \E k \in 1..Len(atts) : atts[k].callback = "threw" THEN uncaught \cup {"ReferenceError: id is not defined"} ELSE uncaught
  /\ UNCHANGED <<now, keyGen, storedPid, saveOps, delayTest, storeOps, storeFault, local, page, decisions, shown>>

-----------------------------------------------------------------------------
(* deleteSurveyRecord and updateTimeToSend, called on their own. *)

\* The readwrite transaction of the call in slot o.
OpTransaction(o) == Transaction("readwrite", MaxSaveSlots + o)

\* The calls of updateTimeToSend(id) that have not written yet.
UpdatesInProgress(id) == Cardinality({ o \in OpSlots : storeOps[o].op = "update" /\ storeOps[o].id = id /\ OpActive(o) })

\* The tries stored under id when a call is made (0 when there is no entry).
StoredTries(id) == IF id \in StoreIds(store) THEN StoreGet(store, id).tries ELSE 0

\* SurveySubmission.deleteSurveyRecord(id): withObjectStore opens the database.
CallDeleteSurveyRecord(o, id) ==
  /\ ~OpActive(o)
  /\ id <= keyGen
  /\ storeOps' = [storeOps EXCEPT ![o] = [IdleOp EXCEPT !.pc = "opening", !.op = "delete", !.id = id, !.promise = "pending"]]
  /\ UNCHANGED <<now, store, keyGen, storedPid, saveOps, pq, txq, delivered, lastFail, uncaught, delayTest, storeFault, local, page, decisions, shown>>

\* SurveySubmission.updateTimeToSend(id): withObjectStore opens the database.
CallUpdateTimeToSend(o, id) ==
  /\ ~OpActive(o)
  /\ id <= keyGen
  /\ StoredTries(id) + UpdatesInProgress(id) < MaxStoredTries
  /\ storeOps' = [storeOps EXCEPT ![o] = [IdleOp EXCEPT !.pc = "opening", !.op = "update", !.id = id, !.base = StoredTries(id), !.promise = "pending"]]
  /\ UNCHANGED <<now, store, keyGen, storedPid, saveOps, pq, txq, delivered, lastFail, uncaught, delayTest, storeFault, local, page, decisions, shown>>

\* indexedDB.open succeeded: the action runs in a readwrite transaction and
\* requests store.delete(id) or store.get(id).
OpOpenSuccess(o) ==
  /\ storeOps[o].pc = "opening"
  /\ storeOps' = [storeOps EXCEPT ![o].pc = IF storeOps[o].op = "delete" THEN "deleting" ELSE "getting"]
  /\ txq' = Append(txq, OpTransaction(o))
  /\ UNCHANGED <<now, store, keyGen, storedPid, saveOps, pq, delivered, lastFail, uncaught, delayTest, storeFault, local, page, decisions, shown>>

\* store.delete(id) succeeded, whether or not there was an entry under id:
\* request.onsuccess = resolve.
DeleteSuccess(o) ==
  /\ storeOps[o].pc = "deleting"
  /\ CanRun(OpTransaction(o))
  /\ txq' = Finished(OpTransaction(o))
  /\ store' = deleteSurveyRecord(store, storeOps[o].id)
  /\ storeOps' = [storeOps EXCEPT ![o].pc = "deleted", ![o].found = (storeOps[o].id \in StoreIds(store)), ![o].promise = withObjectStore("fulfilled")]
  /\ UNCHANGED <<now, keyGen, storedPid, saveOps, pq, delivered, lastFail, uncaught, delayTest, storeFault, local, page, decisions, shown>>

\* store.get(id) succeeded.  With an entry, the handler advances tries,
\* computes timeToSend from Date.now() and requests store.put(record).  With
\* none, event.target.result is undefined and record.tries throws inside the
\* handler: the transaction aborts and neither resolve nor reject is called.
UpdateGetSuccess(o) ==
  /\ storeOps[o].pc = "getting"
  /\ CanRun(OpTransaction(o))
  /\ IF storeOps[o].id \in StoreIds(store)
       THEN /\ storeOps' = [storeOps EXCEPT ![o].pc = "putting", ![o].found = TRUE, ![o].at = now, ![o].record = UpdatedRecord(StoreGet(store, storeOps[o].id), now)]
            /\ UNCHANGED <<txq, uncaught>>
       ELSE /\ storeOps' = [storeOps EXCEPT ![o].pc = "threw", ![o].found = FALSE]
            /\ txq' = Finished(OpTransaction(o))
            /\ uncaught' = uncaught \cup {"TypeError: cannot read property tries of undefined"}
  /\ UNCHANGED <<now, store, keyGen, storedPid, saveOps, pq, delivered, lastFail, delayTest, storeFault, local, page, decisions, shown>>

\* store.put(record) succeeded: request.onsuccess = resolve.  The record of
\* the handler is dropped with it.
UpdatePutSuccess(o) ==
  /\ storeOps[o].pc = "putting"
  /\ CanRun(OpTransaction(o))
  /\ txq' = Finished(OpTransaction(o))
  /\ store' = StorePut(store, storeOps[o].record)
  /\ storeOps' = [storeOps EXCEPT ![o].pc = "updated", ![o].record = NoEntry, ![o].promise = withObjectStore("fulfilled")]
  /\ UNCHANGED <<now, keyGen, storedPid, saveOps, pq, delivered, lastFail, uncaught, delayTest, storeFault, local, page, decisions, shown>>

-----------------------------------------------------------------------------
(* The event page: consent, setup survey, survey notifications. *)

\* Five minutes pass.
LongTick ==
  /\ now < MaxLongTicks * MINIMUM_SURVEY_DELAY
  /\ now' = now + MINIMUM_SURVEY_DELAY
  /\ UNCHANGED <<store, keyGen, storedPid, saveOps, pq, txq, delivered, lastFail, uncaught, delayTest, storeOps, storeFault, local, page, decisions, shown>>

\* The browser starts again: the event page is loaded afresh, the listeners
\* and callbacks of the previous run are gone, and onStartup calls
\* maybeShowConsentOrSetupSurvey, which asks storage for the consent key.
Startup ==
  /\ page.pc = "idle"
  /\ page' = [pc |-> "consentLookup", listening |-> FALSE]
  /\ decisions' = [d \in DecisionSlots |-> IdleDecision]
  /\ UNCHANGED <<now, store, keyGen, storedPid, saveOps, pq, txq, delivered, lastFail, uncaught, delayTest, storeOps, storeFault, local, shown>>

\* consentCallback(lookup).
consentCallback ==
  /\ page.pc = "consentLookup"
  /\ page' = IF local[CONSENT_KEY] \in {Unset, CONSENT_PENDING} THEN [pc |-> "idle", listening |-> TRUE] ELSE IF local[CONSENT_KEY] = CONSENT_REJECTED THEN [page EXCEPT !.pc = "uninstalled"] ELSE [page EXCEPT !.pc = "setupLookup"]
  /\ UNCHANGED <<now, store, keyGen, storedPid, saveOps, pq, txq, delivered, lastFail, uncaught, delayTest, storeOps, storeFault, local, decisions, shown>>

\* setupCallback(lookup).
setupCallback ==
  /\ page.pc = "setupLookup"
  /\ page' = [page EXCEPT !.pc = "idle"]
  /\ local' = IF local[SETUP_KEY] = SETUP_COMPLETED THEN [local EXCEPT ![READY_FOR_SURVEYS] = TRUE] ELSE local
  /\ UNCHANGED <<now, store, keyGen, storedPid, saveOps, pq, txq, delivered, lastFail, uncaught, delayTest, storeOps, storeFault, decisions, shown>>

\* The participant answers the consent form, which stores the answer.
SubmitConsent(answer) ==
  /\ page.pc = "idle"
  /\ local[CONSENT_KEY] \in {Unset, CONSENT_PENDING}
  /\ local' = [local EXCEPT ![CONSENT_KEY] = answer]
  /\ UNCHANGED <<now, store, keyGen, storedPid, saveOps, pq, txq, delivered, lastFail, uncaught, delayTest, storeOps, storeFault, page, decisions, shown>>

\* storageUpdated(changes, areaName), for a change of the setup key.
storageUpdated(st, newValue) == IF newValue = SETUP_COMPLETED THEN [st EXCEPT ![READY_FOR_SURVEYS] = TRUE] ELSE st

\* The participant submits the setup survey, which stores SETUP_COMPLETED;
\* chrome.storage.onChanged calls storageUpdated when it is registered.
SubmitSetupSurvey ==
  /\ page.pc = "idle"
  /\ local[CONSENT_KEY] = CONSENT_GRANTED
  /\ local[SETUP_KEY] # SETUP_COMPLETED
  /\ local' = LET written == [local EXCEPT ![SETUP_KEY] = SETUP_COMPLETED] IN IF page.listening THEN storageUpdated(written, SETUP_COMPLETED) ELSE written
  /\ UNCHANGED <<now, store, keyGen, storedPid, saveOps, pq, txq, delivered, lastFail, uncaught, delayTest, storeOps, storeFault, page, decisions, shown>>

\* showSurveyNotification(element, decision), to its first storage request.
onDecision(d, eventType) ==
  /\ page.pc # "uninstalled"
  /\ decisions[d].pc = "idle"
  /\ shown.sinceWeekly + DecisionsInProgress < MaxShown
  /\ decisions' = IF eventType \in SupportedEventTypes THEN [decisions EXCEPT ![d] = [IdleDecision EXCEPT !.pc = "get1"]] ELSE decisions
  /\ UNCHANGED <<now, store, keyGen, storedPid, saveOps, pq, txq, delivered, lastFail, uncaught, delayTest, storeOps, storeFault, local, page, shown>>

\* Storage serves get([READY_FOR_SURVEYS, LAST_NOTIFICATION_TIME]).
StorageGet1(d) ==
  /\ decisions[d].pc = "get1"
  /\ decisions' = [decisions EXCEPT ![d] = [@ EXCEPT !.pc = "cb1", !.ready = local[READY_FOR_SURVEYS], !.last = local[LAST_NOTIFICATION_TIME]]]
  /\ UNCHANGED <<now, store, keyGen, storedPid, saveOps, pq, txq, delivered, lastFail, uncaught, delayTest, storeOps, storeFault, local, page, shown>>

\* The first callback stops when the page is not ready or the last
\* notification is recent.  A stored time is a value of Date.now().
StopsInCallback1(d) == \/ ~decisions[d].ready
                       \/ decisions[d].last # NoTime /\ now - decisions[d].last < MINIMUM_SURVEY_DELAY

\* The callback of the first get.  Its own get names the two count keys,
\* both undefined: chrome.storage either rejects the array, and the call
\* throws, or serves it.
Callback1(d) ==
  /\ decisions[d].pc = "cb1"
  /\ \/ /\ StopsInCallback1(d)
        /\ decisions' = [decisions EXCEPT ![d] = IdleDecision]
        /\ uncaught' = uncaught
     \/ /\ ~StopsInCallback1(d)
        /\ decisions' = [decisions EXCEPT ![d] = [@ EXCEPT !.pc = "get2"]]
        /\ uncaught' = uncaught
     \/ /\ ~StopsInCallback1(d)
        /\ decisions' = [decisions EXCEPT ![d] = IdleDecision]
        /\ uncaught' = uncaught \cup {"Error: Invocation of form get(object, function) doesn't match definition"}
  /\ UNCHANGED <<now, store, keyGen, storedPid, saveOps, pq, txq, delivered, lastFail, delayTest, storeOps, storeFault, local, page, shown>>

\* Storage serves get([SURVEYS_SHOWN_TODAY, SURVEYS_SHOWN_THIS_WEEK]).
StorageGet2(d) ==
  /\ decisions[d].pc = "get2"
  /\ decisions' = [decisions EXCEPT ![d] = [@ EXCEPT !.pc = "cb2", !.today = local[SURVEYS_SHOWN_TODAY], !.week = local[SURVEYS_SHOWN_THIS_WEEK]]]
  /\ UNCHANGED <<now, store, keyGen, storedPid, saveOps, pq, txq, delivered, lastFail, uncaught, delayTest, storeOps, storeFault, local, page, shown>>

\* The callback of the second get: at a limit it returns, otherwise it creates
\* the notification, then setSurveysShownDaily, setSurveysShownWeekly and
\* resetLastNotificationTimeStorageValue, in this order.
Callback2(d) ==
  /\ decisions[d].pc = "cb2"
  /\ decisions' = [decisions EXCEPT ![d] = IdleDecision]
  /\ IF decisions[d].today >= MAX_SURVEYS_PER_DAY \/ decisions[d].week >= MAX_SURVEYS_PER_WEEK
       THEN UNCHANGED <<local, shown>>
       ELSE /\ shown' = [sinceDaily |-> shown.sinceDaily + 1, sinceWeekly |-> shown.sinceWeekly + 1, lastAt |-> now, prevAt |-> shown.lastAt]
            /\ local' = [local EXCEPT ![SURVEYS_SHOWN_TODAY] = decisions[d].today + 1, ![SURVEYS_SHOWN_THIS_WEEK] = decisions[d].week + 1, ![LAST_NOTIFICATION_TIME] = now]
  /\ UNCHANGED <<now, store, keyGen, storedPid, saveOps, pq, txq, delivered, lastFail, uncaught, delayTest, storeOps, storeFault, page>>

\* resetSurveyDailyCount(alarm), for the daily reset alarm.
resetSurveyDailyCount ==
  /\ page.pc # "uninstalled"
  /\ local' = [local EXCEPT ![SURVEYS_SHOWN_TODAY] = 0]
  /\ shown' = [shown EXCEPT !.sinceDaily = 0]
  /\ UNCHANGED <<now, store, keyGen, storedPid, saveOps, pq, txq, delivered, lastFail, uncaught, delayTest, storeOps, storeFault, page, decisions>>

\* resetSurveyWeeklyCount(alarm), for the weekly reset alarm.
resetSurveyWeeklyCount ==
  /\ page.pc # "uninstalled"
  /\ local' = [local EXCEPT ![SURVEYS_SHOWN_THIS_WEEK] = 0]
  /\ shown' = [shown EXCEPT !.sinceWeekly = 0]
  /\ UNCHANGED <<now, store, keyGen, storedPid, saveOps, pq, txq, delivered, lastFail, uncaught, delayTest, storeOps, storeFault, page, decisions>>

-----------------------------------------------------------------------------
(* Storage failures. *)

\* From now on the store fails the delete and the reschedule of the entry
\* under id: indexedDB.open or the request raises onerror.
StoreBreaks(id) ==
  /\ id \in StoreIds(store)
  /\ id \notin storeFault
  /\ storeFault' = storeFault \cup {id}
  /\ UNCHANGED <<now, store, keyGen, storedPid, saveOps, pq, txq, delivered, lastFail, uncaught, delayTest, storeOps, local, page, decisions, shown>>

-----------------------------------------------------------------------------
(* The unit tests of calculateSendingDelay. *)

\* var delay1 = SurveySubmission.calculateSendingDelay(tries1), and the same
\* for delay2.
CalculateDelays ==
  /\ delayTest.tries1 # UndefinedArg
  /\ delayTest.delay1 = NoTime
  /\ delayTest' = [delayTest EXCEPT !.delay1 = calculateSendingDelay(delayTest.tries1), !.delay2 = calculateSendingDelay(delayTest.tries2)]
  /\ UNCHANGED <<now, store, keyGen, storedPid, saveOps, pq, txq, delivered, lastFail, uncaught, storeOps, storeFault, local, page, decisions, shown>>

-----------------------------------------------------------------------------
(* Specifications. *)

\* Saving: the runtime message of a completed survey, the direct call of the
\* integration tests, and the storage outcomes.
NextSave ==
  \/ Tick
  \/ \E s \in SaveSlots, message \in Messages : handleCompletedSurvey(s, message)
  \/ \E s \in SaveSlots : GetParticipantIdCallback(s)
  \/ \E s \in SaveSlots, tries \in TriesArgs : saveSurveyRecord(s, tries)
  \/ \E s \in SaveSlots : SaveOpenSuccess(s)
  \/ \E s \in SaveSlots : SaveOpenError(s)
  \/ \E s \in SaveSlots : SaveAddSuccess(s)
  \/ \E s \in SaveSlots : SaveAddError(s)

\* The queue: entries saved with any number of prior tries over a working
\* store, the alarm channel, and invocations of processQueue.
NextQueue ==
  \/ Tick
  \/ \E s \in SaveSlots, tries \in TriesArgs : saveSurveyRecord(s, tries)
  \/ \E s \in SaveSlots : SaveOpenSuccess(s)
  \/ \E s \in SaveSlots : SaveAddSuccess(s)
  \/ \E name \in AlarmNames : processQueueAlarm(name)
  \/ \E i \in QueueSlots : processQueue(i)
  \/ \E i \in QueueSlots : QueueOpenSuccess(i)
  \/ \E i \in QueueSlots : QueueCursorEnd(i, NetOutcomes)

\* The queue with an endpoint that answers every request with 204.
NextServed ==
  \/ Tick
  \/ \E s \in SaveSlots, tries \in TriesArgs : saveSurveyRecord(s, tries)
  \/ \E s \in SaveSlots : SaveOpenSuccess(s)
  \/ \E s \in SaveSlots : SaveAddSuccess(s)
  \/ \E name \in AlarmNames : processQueueAlarm(name)
  \/ \E i \in QueueSlots : processQueue(i)
  \/ \E i \in QueueSlots : QueueOpenSuccess(i)
  \/ \E i \in QueueSlots : QueueCursorEnd(i, {NoContent})

\* The store: entries saved with any number of prior tries over a working
\* store, and calls that delete and reschedule them.
NextStore ==
  \/ Tick
  \/ \E s \in SaveSlots, tries \in TestTriesArgs : saveSurveyRecord(s, tries)
  \/ \E s \in SaveSlots : SaveOpenSuccess(s)
  \/ \E s \in SaveSlots : SaveAddSuccess(s)
  \/ \E o \in OpSlots, id \in Ids : CallDeleteSurveyRecord(o, id)
  \/ \E o \in OpSlots, id \in Ids : CallUpdateTimeToSend(o, id)
  \/ \E o \in OpSlots : OpOpenSuccess(o)
  \/ \E o \in OpSlots : DeleteSuccess(o)
  \/ \E o \in OpSlots : UpdateGetSuccess(o)
  \/ \E o \in OpSlots : UpdatePutSuccess(o)

\* A minute passes, within the life of an entry.
LifecycleTick ==
  /\ now < MaxLifecycleTicks * MinuteMs
  /\ Tick

\* The life of an entry: saved, scanned and attempted by processQueue,
\* rescheduled and deleted.
NextLifecycle ==
  \/ LifecycleTick
  \/ \E s \in SaveSlots, tries \in TestTriesArgs : saveSurveyRecord(s, tries)
  \/ \E s \in SaveSlots : SaveOpenSuccess(s)
  \/ \E s \in SaveSlots : SaveAddSuccess(s)
  \/ \E i \in QueueSlots : processQueue(i)
  \/ \E i \in QueueSlots : QueueOpenSuccess(i)
  \/ \E i \in QueueSlots : QueueCursorEnd(i, ServerOutcomes)
  \/ \E o \in LifecycleOpSlots, id \in Ids : CallDeleteSurveyRecord(o, id)
  \/ \E o \in LifecycleOpSlots, id \in Ids : CallUpdateTimeToSend(o, id)
  \/ \E o \in LifecycleOpSlots : OpOpenSuccess(o)
  \/ \E o \in LifecycleOpSlots : DeleteSuccess(o)
  \/ \E o \in LifecycleOpSlots : UpdateGetSuccess(o)
  \/ \E o \in LifecycleOpSlots : UpdatePutSuccess(o)

\* The queue over a store that may fail the reconciliation of some entries.
NextFault ==
  \/ NextQueue
  \/ \E id \in Ids : StoreBreaks(id)

NextDelay == CalculateDelays

NextPage ==
  \/ LongTick
  \/ Startup
  \/ consentCallback
  \/ setupCallback
  \/ \E answer \in {CONSENT_GRANTED, CONSENT_REJECTED} : SubmitConsent(answer)
  \/ SubmitSetupSurvey
  \/ \E d \in DecisionSlots, eventType \in EventTypes : onDecision(d, eventType)
  \/ \E d \in DecisionSlots : StorageGet1(d)
  \/ \E d \in DecisionSlots : Callback1(d)
  \/ \E d \in DecisionSlots : StorageGet2(d)
  \/ \E d \in DecisionSlots : Callback2(d)
  \/ resetSurveyDailyCount
  \/ resetSurveyWeeklyCount

Next == NextSave \/ NextQueue \/ NextStore \/ NextLifecycle \/ NextFault \/ NextDelay \/ NextPage

SpecSave == Init /\ [][NextSave]_vars

SpecQueue == Init /\ [][NextQueue]_vars

Spec == Init /\ [][Next]_vars

SpecStore == Init /\ [][NextStore]_vars

SpecLifecycle == Init /\ [][NextLifecycle]_vars

SpecFault == Init /\ [][NextFault]_vars

SpecDelay == InitDelay /\ [][NextDelay]_vars

SpecPage == Init /\ [][NextPage]_vars

\* The alarm is periodic (every 20 minutes), every storage request is
\* eventually served, and the clock advances while it can.
FairSpecServed == Init /\ [][NextServed]_vars /\ WF_vars(Tick) /\ WF_vars(processQueueAlarm(QUEUE_ALARM_NAME)) /\ \A i \in QueueSlots : WF_vars(processQueue(i)) /\ WF_vars(QueueOpenSuccess(i)) /\ WF_vars(QueueCursorEnd(i, {NoContent})) /\ \A s \in SaveSlots : WF_vars(SaveOpenSuccess(s)) /\ WF_vars(SaveAddSuccess(s))

-----------------------------------------------------------------------------
(* Properties. *)

\* The attempts of the invocation in slot i, once its callbacks have run.
Reconciled(i) == IF pq[i].pc = "done" THEN { pq[i].attempts[k] : k \in 1..Len(pq[i].attempts) } ELSE {}

\* The endpoint answers the delivery of the entry with HTTP 204.
Accepted(a) == a.net.event = "load" /\ a.net.status = HTTP_NO_CONTENT

EntriesOf(id) == { e \in store : e.id = id }

\* C1: a due entry whose delivery the endpoint answers with 204 is absent
\* from the store (a full scan does not find it) once the invocation has
\* reconciled the outcome.
C1_DeliveredIsRemoved ==
  \A i \in QueueSlots : \A a \in Reconciled(i) :
    Accepted(a) => EntriesOf(a.id) = {}

\* C2: a due entry with tries = k whose delivery failed is, once the outcome
\* has been reconciled, in the store exactly once, with tries = k + 1 and a
\* timeToSend later than the time of the failed attempt.
C2_FailedIsRescheduled ==
  \A i \in QueueSlots : \A a \in Reconciled(i) :
    a.state = "rejected" =>
      /\ Cardinality(EntriesOf(a.id)) = 1
      /\ \A e \in EntriesOf(a.id) : e.tries = a.tries + 1 /\ e.timeToSend > pq[i].endedAt

\* C3: when an invocation finds several due entries, some of whose deliveries
\* the endpoint accepts and some not, then after reconciliation exactly the
\* refused ones remain, each with its own tries incremented by one.
C3_MixedBatch ==
  \A i \in QueueSlots :
    ( /\ Cardinality(Reconciled(i)) >= 2
      /\ \E a \in Reconciled(i) : Accepted(a)
      /\ \E a \in Reconciled(i) : ~Accepted(a) )
    => \A a \in Reconciled(i) :
         IF Accepted(a) THEN EntriesOf(a.id) = {}
         ELSE \E e \in EntriesOf(a.id) : e.tries = a.tries + 1

\* C4: every entry that was ever saved is still in the store or one of its
\* deliveries succeeded, however many of its deliveries failed.
C4_NoRecordLost ==
  \A id \in 1..keyGen : id \in StoreIds(store) \/ id \in delivered

\* C4 witness: an entry is in the store after at least two failed deliveries.
C4_Witness ==
  \E i \in QueueSlots : \E a \in Reconciled(i) :
    a.state = "rejected" /\ a.prevFail # NoTime /\ a.id \in StoreIds(store) /\ a.id \notin delivered

\* A backlog: the store holds entries and all of them are due.
Backlog == store # {} /\ \A e \in store : e.timeToSend <= now

\* C5: from a backlog of due entries, with the alarm firing again and again
\* and an endpoint that accepts every delivery, the store becomes empty.
C5_BacklogDrains == Backlog ~> (store = {})

\* C6: the promise of processQueue is fulfilled once every selected entry has
\* been reconciled, and not before.
C6_PromiseFollowsReconciliation ==
  \A i \in QueueSlots :
    /\ (pq[i].promise = "fulfilled" => pq[i].pc = "done")
    /\ (pq[i].pc = "done" => pq[i].promise = "fulfilled")

\* C7: a delivery is reported as a success exactly when the endpoint answers
\* 204; a load with any other status, an error and a timeout are failures,
\* and every failure reschedules the entry with tries incremented.
C7_Only204Succeeds ==
  \A i \in QueueSlots : \A a \in Reconciled(i) :
    /\ (a.state = "fulfilled" <=> Accepted(a))
    /\ (a.state = "rejected" => \E e \in EntriesOf(a.id) : e.tries = a.tries + 1)

\* The ids the cursor step of slot i selects.
SelectedIds(i) == { pq'[i].attempts[k].id : k \in 1..Len(pq'[i].attempts) }

C9_NotBeforeTimeToSend ==
  \A i \in QueueSlots : \A a \in Reconciled(i) :
    /\ a.timeToSend <= pq[i].bound
    /\ (a.prevFail # NoTime => pq[i].bound >= a.prevFail + calculateSendingDelay(a.tries))

\* C10: a save with tries omitted adds exactly one entry, with tries = 0, a
\* timeToSend equal to the time of the save (so the entry is due at once) and
\* the type and the responses of the completed survey.
C10_SaveWithTriesOmitted ==
  [][\A s \in SaveSlots :
       (saveOps[s].pc = "adding" /\ saveOps'[s].pc = "saved" /\ saveOps[s].triesArg = UndefinedArg) =>
         \E e \in store' \ store :
           /\ store' = store \cup {e}
           /\ e.id = saveOps'[s].key
           /\ e.tries = 0
           /\ e.timeToSend = saveOps[s].savedAt
           /\ e.timeToSend <= now'
           /\ e.surveyRecord = saveOps[s].surveyRecord
           /\ (saveOps[s].via = "message" =>
                 /\ e.surveyRecord.type = saveOps[s].msg.survey_type
                 /\ e.surveyRecord.responses = saveOps[s].msg.responses)]_vars

\* C10 witness: a survey completed through the runtime message is in the
\* store, saved at an earlier time than now.
C10_Witness ==
  \E s \in SaveSlots :
    /\ saveOps[s].pc = "saved" /\ saveOps[s].via = "message"
    /\ saveOps[s].msg.responses # <<>>
    /\ saveOps[s].key \in StoreIds(store)
    /\ saveOps[s].savedAt < now

\* C11: a save with tries = k >= 0 adds one entry with tries = k and
\* timeToSend = (time of the save) + (2^k - 1) minutes; for k = 2 the
\* timeToSend is at least 180000 ms later than the time of the save.
C11_SaveWithTries ==
  [][\A s \in SaveSlots :
       (saveOps[s].pc = "adding" /\ saveOps'[s].pc = "saved" /\ saveOps[s].triesArg >= 0) =>
         \E e \in store' \ store :
           /\ store' = store \cup {e}
           /\ e.id = saveOps'[s].key
           /\ e.tries = saveOps[s].triesArg
           /\ e.timeToSend = saveOps[s].savedAt + (2^(saveOps[s].triesArg) - 1) * 60000
           /\ (saveOps[s].triesArg = 2 => e.timeToSend - saveOps[s].savedAt >= 180000)]_vars

\* C11 witness: an entry saved with tries = 2 at a time after the start is in
\* the store, to be sent three minutes after the save.
C11_Witness ==
  \E s \in SaveSlots : \E e \in store :
    /\ saveOps[s].pc = "saved" /\ saveOps[s].triesArg = 2 /\ saveOps[s].savedAt > 0
    /\ e.id = saveOps[s].key /\ e.tries = 2
    /\ e.timeToSend = saveOps[s].savedAt + 180000

\* The two calls of the unit test have returned.
DelaysCalculated == delayTest.delay1 # NoTime

\* C12: calculateSendingDelay(tries) is (2^tries - 1) * 60000 ms for every
\* tries of the range: 0 for 0, 60000 for 1, 180000 for 2, 420000 for 3 and
\* 900000 for 4.
C12_DelayValues ==
  DelaysCalculated =>
    /\ delayTest.delay1 = (2^(delayTest.tries1) - 1) * 60000
    /\ (delayTest.tries1 = 0 => delayTest.delay1 = 0)
    /\ (delayTest.tries1 = 1 => delayTest.delay1 = 60000)
    /\ (delayTest.tries1 = 2 => delayTest.delay1 = 180000)
    /\ (delayTest.tries1 = 3 => delayTest.delay1 = 420000)
    /\ (delayTest.tries1 = 4 => delayTest.delay1 = 900000)

\* C12 witness: the delay for four tries has been calculated.
C12_Witness ==
  DelaysCalculated /\ delayTest.tries1 = 4 /\ delayTest.delay1 = 900000

\* C13: calculateSendingDelay is strictly increasing: fewer tries give a
\* strictly shorter delay.
C13_DelayStrictlyIncreasing ==
  (DelaysCalculated /\ delayTest.tries1 < delayTest.tries2) =>
    delayTest.delay1 < delayTest.delay2

\* C13 witness: the delays for consecutive numbers of tries beyond four have
\* been calculated and differ.
C13_Witness ==
  /\ DelaysCalculated
  /\ delayTest.tries1 = 5 /\ delayTest.tries2 = 6
  /\ delayTest.delay1 < delayTest.delay2

\* The step is the write-back of a call of updateTimeToSend(id).
RescheduleStep(id) == \E o \in OpSlots : storeOps[o].pc = "putting" /\ storeOps'[o].pc = "updated" /\ storeOps[o].id = id

\* C14: the tries of a stored entry changes only in the write-back of
\* updateTimeToSend for that entry (the reschedule of the failure callback),
\* and then by exactly +1; a save, a scan, a delivery and a delete leave the
\* tries of every entry as they were.
C14_TriesOnlyIncrement ==
  [][\A e \in store : \A f \in store' :
       (e.id = f.id /\ e.tries # f.tries) => (f.tries = e.tries + 1 /\ RescheduleStep(e.id))]_vars

\* C14 witness: an entry rescheduled once is in the store with one more try
\* than before, after a scan that selected it and a delivery the endpoint
\* accepted.
C14_Witness ==
  \E o \in OpSlots : \E e \in store : \E i \in QueueSlots : \E a \in Reconciled(i) :
    /\ storeOps[o].pc = "updated" /\ storeOps[o].id = e.id
    /\ e.tries = storeOps[o].base + 1
    /\ a.id = e.id /\ a.tries = e.tries /\ Accepted(a)

\* C15: the timeToSend of a stored entry never decreases; every reschedule
\* sets it to (time of the reschedule) + (2^tries - 1) minutes for the new
\* tries, which is later than the value it replaces, also when calls of
\* updateTimeToSend on the entry overlap.
C15_TimeToSendNeverDecreases ==
  [][\A e \in store : \A f \in store' :
       (e.id = f.id) =>
         /\ f.timeToSend >= e.timeToSend
         /\ \A o \in OpSlots :
              (storeOps[o].pc = "putting" /\ storeOps'[o].pc = "updated" /\ storeOps[o].id = e.id) =>
                /\ f.timeToSend = storeOps[o].at + (2^(f.tries) - 1) * 60000
                /\ f.timeToSend > e.timeToSend]_vars

\* C15 witness: an entry saved with prior tries, so with a timeToSend ahead
\* of the clock, has been rescheduled at a later time.
C15_Witness ==
  \E o \in OpSlots : \E e \in store :
    /\ storeOps[o].pc = "updated" /\ storeOps[o].id = e.id
    /\ storeOps[o].base >= 1 /\ storeOps[o].at > 0
    /\ e.tries = storeOps[o].base + 1
    /\ e.timeToSend = storeOps[o].at + (2^(e.tries) - 1) * 60000

\* C18: a call of updateTimeToSend(id) that finds no entry under id ends
\* with its promise rejected (a RecordNotFound result), not pending.
C18_MissingIdIsRejected ==
  \A o \in OpSlots :
    (storeOps[o].op = "update" /\ storeOps[o].pc \notin {"idle", "opening", "getting"} /\ ~storeOps[o].found) =>
      storeOps[o].promise = "rejected"

\* C19: deleteSurveyRecord(id) removes the entry under id and nothing else,
\* and succeeds without error when there is no such entry, leaving the store
\* as it was; deleting twice gives the store of deleting once.
C19_DeleteIsIdempotent ==
  [][\A o \in OpSlots :
       (storeOps[o].pc = "deleting" /\ storeOps'[o].pc = "deleted") =>
         /\ store' = { e \in store : e.id # storeOps[o].id }
         /\ (storeOps[o].id \notin StoreIds(store) => store' = store)
         /\ storeOps'[o].promise = "fulfilled"
         /\ uncaught' = uncaught
         /\ deleteSurveyRecord(store', storeOps[o].id) = store']_vars

\* C19 witness: the same id has been deleted twice, the second call finding
\* nothing, and another entry is still in the store.
C19_Witness ==
  \E o1 \in OpSlots : \E o2 \in OpSlots :
    /\ storeOps[o1].pc = "deleted" /\ storeOps[o1].found
    /\ storeOps[o2].pc = "deleted" /\ ~storeOps[o2].found
    /\ storeOps[o1].id = storeOps[o2].id
    /\ storeOps[o2].promise = "fulfilled"
    /\ store # {}

\* Two calls of updateTimeToSend on the same id, both made while the entry
\* had the same tries, have both written back.
BothUpdated(o1, o2) == o1 # o2 /\ storeOps[o1].pc = "updated" /\ storeOps[o2].pc = "updated" /\ storeOps[o1].id = storeOps[o2].id /\ storeOps[o1].base = storeOps[o2].base

LaterOf(t1, t2) == IF t1 >= t2 THEN t1 ELSE t2

\* C20: two overlapping calls of updateTimeToSend on the same id lose no
\* update: once both have completed the entry has two more tries than when
\* they were called, and the timeToSend computed from that final tries.
C20_NoLostUpdate ==
  \A o1 \in OpSlots : \A o2 \in OpSlots :
    BothUpdated(o1, o2) =>
      \A e \in EntriesOf(storeOps[o1].id) :
        /\ e.tries = storeOps[o1].base + 2
        /\ e.timeToSend = LaterOf(storeOps[o1].at, storeOps[o2].at) + (2^(e.tries) - 1) * 60000

\* C20 witness: two overlapping calls on the same id have completed, the
\* second reading at a later time than the first, and the entry is in the
\* store.
C20_Witness ==
  \E o1 \in OpSlots : \E o2 \in OpSlots :
    /\ BothUpdated(o1, o2)
    /\ storeOps[o1].at < storeOps[o2].at
    /\ EntriesOf(storeOps[o1].id) # {}

\* A call of processQueue starts in the step.
FlushStarts == \E i \in QueueSlots : pq[i].pc # "opening" /\ pq'[i].pc = "opening"

\* C16: an alarm on the shared channel starts a call of processQueue exactly
\* when its name is QUEUE_ALARM_NAME: the queue alarm always does (while a
\* slot is free), the other alarms never do.
C16_AlarmFilter ==
  [][\A name \in AlarmNames :
       processQueueAlarm(name) =>
         ((name = QUEUE_ALARM_NAME) <=> (FlushStarts \/ \A i \in QueueSlots : QueueActive(i)))]_vars

\* C17: when the store cannot be opened or the write fails, the promise of
\* saveSurveyRecord is rejected and no entry has been added.
C17_SaveRejectsOnStorageFailure ==
  \A s \in SaveSlots :
    (saveOps[s].pc \in {"openFailed", "addFailed"}) =>
      /\ saveOps[s].promise = "rejected"
      /\ saveOps[s].key = 0

\* C21: when the store fails the reconciliation of one entry of a batch,
\* that entry stays as it was (same tries, same timeToSend) and the other
\* entries of the batch are reconciled all the same: removed when the
\* endpoint accepted them, rescheduled with one more try when it did not.
C21_FaultDoesNotAbortBatch ==
  \A i \in QueueSlots : \A a \in Reconciled(i) : \A b \in Reconciled(i) :
    (a.fault /\ ~b.fault) =>
      /\ \E e \in EntriesOf(a.id) : e.tries = a.tries /\ e.timeToSend = a.timeToSend
      /\ IF Accepted(b) THEN EntriesOf(b.id) = {} ELSE \E e \in EntriesOf(b.id) : e.tries = b.tries + 1

\* C22: an invocation of processQueue attempts each due entry once, and an
\* entry whose delivery failed is attempted again only by a later invocation
\* whose scan is not earlier than the timeToSend the failure rescheduled it
\* to, which lies after the failure.
C22_OncePerInvocation ==
  \A i \in QueueSlots :
    (pq[i].pc = "done") =>
      /\ \A j \in 1..Len(pq[i].attempts) : \A k \in 1..Len(pq[i].attempts) :
           (j # k) => pq[i].attempts[j].id # pq[i].attempts[k].id
      /\ \A a \in Reconciled(i) :
           (a.prevFail # NoTime) => (a.timeToSend > a.prevFail /\ pq[i].bound >= a.timeToSend)

\* The transactions in the queue.
OpenTransactions == { txq[k] : k \in 1..Len(txq) }

C24_DeletedNeverReappears ==
  [][\A f \in store' :
       \/ f.id \in StoreIds(store)
       \/ (f.id = keyGen + 1 /\ keyGen' = keyGen + 1)]_vars

\* C24 witness: updateTimeToSend was called for an entry while it was in the
\* store with prior tries, a delete of the entry ran first, and the update
\* found nothing; the entry is not in the store.
C24_Witness ==
  \E o1 \in OpSlots : \E o2 \in OpSlots :
    /\ storeOps[o1].op = "delete" /\ storeOps[o1].pc = "deleted" /\ storeOps[o1].found
    /\ storeOps[o2].op = "update" /\ storeOps[o2].pc = "threw" /\ storeOps[o2].base >= 1
    /\ storeOps[o1].id = storeOps[o2].id
    /\ storeOps[o1].id \notin StoreIds(store)

\* C28: once a participant ID is stored it stays as it is, and every record
\* handleCompletedSurvey builds afterwards carries it.
C28_ParticipantIdStable ==
  [][(storedPid # "") =>
       /\ storedPid' = storedPid
       /\ \A s \in SaveSlots :
            (saveOps[s].pc = "getPid" /\ saveOps'[s].pc = "opening") =>
              saveOps'[s].surveyRecord.participantId = storedPid]_vars

-----------------------------------------------------------------------------
(* The event page: throttling and readiness. *)

\* C25: between two daily resets at most MAX_SURVEYS_PER_DAY notifications
\* are created, and between two weekly resets at most MAX_SURVEYS_PER_WEEK,
\* whatever the interleaving of the decision events and their storage reads.
C25_ThrottleLimits == shown.sinceDaily <= MAX_SURVEYS_PER_DAY /\ shown.sinceWeekly <= MAX_SURVEYS_PER_WEEK

\* C26: a notification is never created less than MINIMUM_SURVEY_DELAY after
\* the one before it.
C26_MinimumDelay == shown.prevAt # NoTime => shown.lastAt - shown.prevAt >= MINIMUM_SURVEY_DELAY

\* C27: once the setup key is SETUP_COMPLETED and the startup lookups of the
\* page are done, the ready flag is true, whichever lookup path the page took.
C27_ReadyAfterSetup == (local[SETUP_KEY] = SETUP_COMPLETED /\ page.pc = "idle") => local[READY_FOR_SURVEYS]

=============================================================================
